---- MODULE Spec2Model ----
(***************************************************************************)
(* Model of app/static/js/main.js: the browser-side orchestrator of the    *)
(* document-intelligence prototype.  Module-level variables and the DOM    *)
(* elements the script writes are the state; every async function is cut   *)
(* at its awaits, one action per resumption.                               *)
(*                                                                         *)
(* Strings are run-length sequences of <<class, count>> pairs over a few   *)
(* character classes (a letter class per document, " ", "\n", ".", and one *)
(* class per fixed literal), so that length, concatenation, substring(0,n) *)
(* and trim are computed exactly on strings of a thousand characters.      *)
(***************************************************************************)
EXTENDS Integers, Sequences, FiniteSets, TLC

\* null as the value of currentDocumentId
Null == "null"

Docs == {"d1", "d2"}

(* ------------------------------ strings ------------------------------ *)

EmptyStr == << >>

\* null and undefined where a string is expected: no string has an empty run
NullS == << <<"null", 0>> >>
AbsentS == << <<"undefined", 0>> >>

Chars(c, n) == IF n = 0 THEN EmptyStr ELSE << <<c, n>> >>

IsWs(c) == c \in {" ", "\n"}

RECURSIVE StrLen(_)
StrLen(s) == IF s = << >> THEN 0 ELSE s[1][2] + StrLen(Tail(s))

Cat(s, t) ==
    IF s = << >> THEN t
    ELSE IF t = << >> THEN s
    ELSE IF s[Len(s)][1] = t[1][1]
         THEN SubSeq(s, 1, Len(s) - 1)
                \o << <<t[1][1], s[Len(s)][2] + t[1][2]>> >> \o Tail(t)
         ELSE s \o t

\* String.prototype.substring(0, n)
RECURSIVE Substring0(_, _)
Substring0(s, n) ==
    IF s = << >> \/ n <= 0 THEN << >>
    ELSE IF s[1][2] <= n THEN << s[1] >> \o Substring0(Tail(s), n - s[1][2])
    ELSE << <<s[1][1], n>> >>

RECURSIVE TrimStart(_)
TrimStart(s) ==
    IF s = << >> THEN s
    ELSE IF IsWs(s[1][1]) THEN TrimStart(Tail(s)) ELSE s

RECURSIVE TrimEnd(_)
TrimEnd(s) ==
    IF s = << >> THEN s
    ELSE IF IsWs(s[Len(s)][1]) THEN TrimEnd(SubSeq(s, 1, Len(s) - 1)) ELSE s

\* String.prototype.trim()
Trim(s) == TrimEnd(TrimStart(s))

\* Array.prototype.join(sep) on an array of strings
RECURSIVE Join(_, _)
Join(items, sep) ==
    IF items = << >> THEN EmptyStr
    ELSE IF Len(items) = 1 THEN items[1]
    ELSE Cat(items[1], Cat(sep, Join(Tail(items), sep)))

\* JavaScript truthiness of a value that is a string, null or undefined
Truthy(v) == v # NullS /\ v # AbsentS /\ v # EmptyStr

\* a ?? b: only null and undefined give way
Or_nullish(a, b) == IF a # NullS /\ a # AbsentS THEN a ELSE b

\* a || b
Or(a, b) == IF Truthy(a) THEN a ELSE b

Min(a, b) == IF a < b THEN a ELSE b

(* ---------------------------- text extraction ------------------------- *)

SamplePageCap == 3
SampleCharCap == 1000
FullPageCap == 10
QuickThreshold == 30
FullThreshold == 50
PodcastThreshold == 100
RelatedK == 5
PreviewLen == 100
PodcastPreviewLen == 500

Ellipsis == Chars(".", 3)
PageSeparator == Chars("\n", 2)

\* "Document content analysis for quick insights."
SamplePlaceholder == Chars("P", 45)
\* "Document content analysis. This PDF contains valuable information for review."
FullPlaceholder == Chars("Q", 77)

\* textContent.items.map(item => item.str).join(' ')
PageText(items) == Join(items, Chars(" ", 1))

\* a page loop that runs to the document's last page
PageLimit_uncapped(mode, numPages) == numPages

\* Math.min(pdf.numPages, 3) / Math.min(pdf.numPages, 10)
PageLimit(mode, numPages) ==
    IF mode = "Sample" THEN Min(numPages, SamplePageCap) ELSE Min(numPages, FullPageCap)

\* a page loop that cuts the sample and reads on
PageStep_cutWithoutBreak(mode, acc, items) ==
    IF mode = "Sample"
          /\ StrLen(Cat(acc, Cat(Join(items, Chars(" ", 1)), Chars("\n", 2)))) > 1000
    THEN [acc |-> Cat(Substring0(Cat(acc, Cat(Join(items, Chars(" ", 1)),
                                              Chars("\n", 2))), 1000),
                      Chars(".", 3)),
          brk |-> FALSE]
    ELSE [acc |-> Cat(acc, Cat(Join(items, Chars(" ", 1)), Chars("\n", 2))),
          brk |-> FALSE]

\* one iteration of the page loop: the accumulator after the page, and
\* whether the loop breaks
PageStep(mode, acc, items) ==
    LET a == Cat(acc, Cat(PageText(items), PageSeparator))
    IN  IF mode = "Sample" /\ StrLen(a) > SampleCharCap
        THEN [acc |-> Cat(Substring0(a, SampleCharCap), Ellipsis), brk |-> TRUE]
        ELSE [acc |-> a, brk |-> FALSE]

\* the catch branch of the extractor
ExtractFallback(mode) ==
    IF mode = "Sample" THEN SamplePlaceholder ELSE FullPlaceholder

\* the length check with the boundary on the wrong side
TooShort_inclusive(text, threshold) ==
    ~Truthy(text) \/ StrLen(Trim(text)) <= threshold

\* !text || text.trim().length < threshold
TooShort(text, threshold) == ~Truthy(text) \/ StrLen(Trim(text)) < threshold

\* full analysis checked against the quick threshold
Threshold_fullAsQuick(kind) ==
    IF kind = "podcast" THEN PodcastThreshold ELSE QuickThreshold

Threshold(kind) ==
    IF kind = "quick" THEN QuickThreshold
    ELSE IF kind = "full" THEN FullThreshold
    ELSE PodcastThreshold

ModeOf(kind) == IF kind = "quick" THEN "Sample" ELSE "Full"

(* --------------------------- backend responses ------------------------ *)

\* A fetch either rejects (transport failure) or resolves to a response with
\* a status (ok or not) and a body; response.json() rejects on a body that
\* is not JSON.  A JSON value is a record tagged with its type; a string
\* field holds a string, NullS or AbsentS.
NotJson == [type |-> "not-json"]
JNull == [type |-> "null"]
JUndefined == [type |-> "undefined"]
JArray(items) == [type |-> "array", items |-> items]
TransportFailure == [net |-> "fail"]
Response(ok, body) == [net |-> "ok", ok |-> ok, body |-> body]

Nullish(v) == v.type \in {"null", "undefined"}

\* obj.f of a JSON object: undefined when the field is missing
Get(obj, f) == IF f \in DOMAIN obj THEN obj[f] ELSE JUndefined
\* the same for a string-valued field
GetS(obj, f) == IF f \in DOMAIN obj THEN obj[f] ELSE AbsentS

\* await fetch(...); await response.json(): rejects, or yields the body
\* whatever the status is (response.ok is not consulted)
FetchJsonRejects(resp) == resp.net = "fail" \/ resp.body = NotJson

\* a field value that counts an empty array as missing
FieldOr_emptyIsMissing(v, placeholder) ==
    IF Nullish(v) THEN placeholder
    ELSE IF v.items = << >> THEN placeholder ELSE v.items

\* value || placeholder for an array-valued field (an empty array is truthy)
FieldOr(v, placeholder) == IF Nullish(v) THEN placeholder ELSE v.items

Literal(name) == Chars(name, 1)
NoKeyInsights == << Literal("No key insights available") >>
NoFacts == << Literal("No additional facts available") >>
NoCounterpoints == << Literal("No counterpoints available") >>
NoConnections == << Literal("No connections available") >>

\* the serialisation of a character as element text: the markup characters
\* become entities (an entity class counts entities, not characters)
Entity(c) ==
    IF c = "<" THEN "&lt;"
    ELSE IF c = ">" THEN "&gt;"
    ELSE IF c = "&" THEN "&amp;"
    ELSE c

RECURSIVE EscapeRuns(_)
EscapeRuns(s) ==
    IF s = << >> THEN << >>
    ELSE << <<Entity(s[1][1]), s[1][2]>> >> \o EscapeRuns(Tail(s))

\* escapeHtml: '' for a falsy argument, otherwise div.textContent = text
\* read back as div.innerHTML
escapeHtml(text) == IF Truthy(text) THEN EscapeRuns(text) ELSE EmptyStr

RECURSIVE MapEscape(_)
MapEscape(items) ==
    IF items = << >> THEN << >>
    ELSE << escapeHtml(items[1]) >> \o MapEscape(Tail(items))

\* a display that leaves connections out when the response has none
displayInsights_noFallback(insights) ==
    IF insights.type = "null" THEN [threw |-> TRUE]
    ELSE LET b == Get(insights, "insights")
         IN  IF Nullish(b)
             THEN [threw |-> FALSE,
                   content |-> [message |-> "No insights generated. Please try again."]]
             ELSE IF Nullish(Get(b, "connections"))
             THEN [threw |-> FALSE,
                   content |->
                     [keyInsights |->
                        MapEscape(FieldOr(Get(b, "key_insights"), NoKeyInsights)),
                      didYouKnow |->
                        MapEscape(FieldOr(Get(b, "did_you_know"), NoFacts)),
                      counterpoints |->
                        MapEscape(FieldOr(Get(b, "counterpoints"), NoCounterpoints))]]
             ELSE [threw |-> FALSE,
                   content |->
                     [keyInsights |->
                        MapEscape(FieldOr(Get(b, "key_insights"), NoKeyInsights)),
                      didYouKnow |->
                        MapEscape(FieldOr(Get(b, "did_you_know"), NoFacts)),
                      counterpoints |->
                        MapEscape(FieldOr(Get(b, "counterpoints"), NoCounterpoints)),
                      connections |-> MapEscape(Get(b, "connections").items)]]

\* displayInsights(insights): throws on a null body, otherwise writes
\* insightsContent and shows insightsContainer
displayInsights(insights) ==
    IF insights.type = "null" THEN [threw |-> TRUE]
    ELSE LET b == Get(insights, "insights")
         IN  IF Nullish(b)
             THEN [threw |-> FALSE,
                   content |-> [message |-> "No insights generated. Please try again."]]
             ELSE [threw |-> FALSE,
                   content |->
                     [keyInsights |->
                        MapEscape(FieldOr(Get(b, "key_insights"), NoKeyInsights)),
                      didYouKnow |->
                        MapEscape(FieldOr(Get(b, "did_you_know"), NoFacts)),
                      counterpoints |->
                        MapEscape(FieldOr(Get(b, "counterpoints"), NoCounterpoints)),
                      connections |->
                        MapEscape(FieldOr(Get(b, "connections"), NoConnections))]]

\* showQuickInsights(insights, docTitle): the modal appended to the body
showQuickInsights(insights, docTitle) ==
    IF insights.type = "null" THEN [threw |-> TRUE]
    ELSE LET b == Get(insights, "insights")
             opt(f) == IF Nullish(b) THEN JUndefined ELSE Get(b, f)
         IN  [threw |-> FALSE,
              modal |-> [title |-> docTitle,
                         keyInsights |->
                           MapEscape(FieldOr(opt("key_insights"), NoKeyInsights)),
                         quickFacts |->
                           MapEscape(FieldOr(opt("did_you_know"), NoFacts))]]

\* section.meta?.page || 'N/A' (page 0 is falsy)
PageLabel(section) ==
    LET m == Get(section, "meta")
        p == IF Nullish(m) THEN 0 ELSE IF "page" \in DOMAIN m THEN m.page ELSE 0
    IN  IF p = 0 THEN "N/A" ELSE ToString(p)

\* Number.prototype.toFixed(2) of a number given in hundredths: the sign,
\* then the digits of the magnitude
ToFixed2(h) ==
    LET m == IF h < 0 THEN 0 - h ELSE h
    IN  (IF h < 0 THEN "-" ELSE "")
          \o ToString(m \div 100) \o "."
          \o ToString((m % 100) \div 10) \o ToString(m % 10)

\* section.score?.toFixed(2) || '0.00', the score given in hundredths
ScoreLabel(section) ==
    IF "score" \in DOMAIN section THEN ToFixed2(section.score) ELSE "0.00"

\* one related-section card
RelatedCard(section) ==
    [page |-> PageLabel(section),
     preview |-> Cat(escapeHtml(Substring0(GetS(section, "text"), PreviewLen)), Ellipsis),
     score |-> ScoreLabel(section)]

\* section.text.substring throws when a section has no text
RelatedThrows(body) ==
    /\ body.type = "array"
    /\ \E i \in 1..Len(body.items) : GetS(body.items[i], "text") \in {NullS, AbsentS}

\* the content written by showRelatedSections for a parsed body: cards for
\* a non-empty array, the message for null, an empty array or an object
RelatedContent(body) ==
    IF body.type = "array" /\ Len(body.items) > 0
    THEN [cards |-> [i \in 1..Len(body.items) |-> RelatedCard(body.items[i])]]
    ELSE [message |-> "No related sections found."]

\* podcast.script || podcast.text_content || pdfText
PodcastScript(podcast, pdfText) ==
    Or(GetS(podcast, "script"), Or(GetS(podcast, "text_content"), pdfText))

\* the excerpt written to podcastContent
PodcastExcerpt(text) == Cat(escapeHtml(Substring0(text, PodcastPreviewLen)), Ellipsis)

(* ------------------------------- state -------------------------------- *)

MaxOps == 2
MaxModals == 1
MaxUploads == 1

Slots == 1..MaxOps

VARIABLES
    currentDocumentId,   \* let currentDocumentId
    currentPodcastText,  \* let currentPodcastText
    documents_metadata,  \* let documents_metadata: id -> metadata
    documentView,        \* #documentView display (#documentsSection is the opposite)
    currentDocTitle,     \* #currentDocTitle text
    pdfViewer,           \* #pdfViewer src
    insightsContainer,   \* #insightsContainer display
    insightsContent,     \* #insightsContent
    podcastContainer,    \* #podcastContainer display
    podcastContent,      \* #podcastContent
    relatedSections,     \* #relatedSections display
    relatedContent,      \* #relatedContent
    loading,             \* #loading display
    modals,              \* the #quickInsightsModal elements appended to the body
    fileInput,           \* the files selected in #fileInput
    utterance,           \* the text speechSynthesis is speaking, NullS when silent
    serverDocs,          \* the backend's documents, as its listing describes them
    uploads,             \* how many uploads the backend has accepted
    ops,                 \* the async calls in flight, one per slot
    call                 \* a function applied on its own: its argument and whether it ran

vars == << currentDocumentId, currentPodcastText, documents_metadata, documentView,
           currentDocTitle, pdfViewer, insightsContainer, insightsContent,
           podcastContainer, podcastContent, relatedSections, relatedContent,
           loading, modals, fileInput, utterance, serverDocs, uploads, ops, call >>

domVars == << documentView, currentDocTitle, pdfViewer, insightsContainer,
              insightsContent, podcastContainer, podcastContent, relatedSections,
              relatedContent, modals >>

\* a document's metadata as the listing endpoint returns it; processed_at
\* is 0 for the documents the backend holds at page load and the number of
\* the upload for a document processed since
Metadata(d, stamp) == [id |-> d, title |-> d, processed_at |-> stamp]

StoredAtLoad == { Metadata(d, 0) : d \in Docs }

\* data.documents.reduce(...): the listing keyed by id
Registry(listing) ==
    [d \in { m.id : m \in listing } |-> CHOOSE m \in listing : m.id = d]

NoReq == [sent |-> FALSE, doc |-> Null, text |-> EmptyStr, k |-> 0]
Req(d, text, k) == [sent |-> TRUE, doc |-> d, text |-> text, k |-> k]

\* an async call: which function, where it is suspended, its locals, and a
\* record of the pages it read (pagesRead, and truncated when the sample
\* was cut), of what it sent (requests counts its analysis fetches),
\* received and reported, and for a delete of the processed_at of the
\* document it asked to delete and then of the one the backend deleted
\* (docStamp)
IdleOp ==
    [kind |-> "none", pc |-> "idle", doc |-> Null,
     numPages |-> 0, pageNum |-> 0, acc |-> EmptyStr, text |-> EmptyStr,
     pagesRead |-> << >>, truncated |-> FALSE, extractFailed |-> FALSE,
     insightReq |-> NoReq, insightResp |-> "none",
     relatedReq |-> NoReq, relatedResp |-> "none",
     podcastReq |-> NoReq, podcastResp |-> "none", requests |-> 0,
     files |-> {}, listing |-> {}, docStamp |-> 0,
     rendered |-> FALSE, alert |-> "none", logged |-> "none", outcome |-> "none"]

StartOp(kind, d, pc) ==
    [IdleOp EXCEPT !.kind = kind, !.doc = d, !.pc = pc, !.outcome = "running"]

Free(o) == ops[o].pc \in {"idle", "done"}

\* the status of a reply as the caller of fetch could tell it
Status(resp) ==
    IF resp.net = "fail" THEN "transport_failure"
    ELSE IF resp.ok THEN "ok" ELSE "http_error"

\* the two resumptions of a call suspended on a request: at pc the fetch is
\* pending and it may reject; at bodyPc the fetch has resolved with the
\* status recorded and response.json() is pending
Resumes(op, pc, bodyPc, status, resp) ==
    \/ op.pc = pc /\ resp.net = "fail"
    \/ op.pc = bodyPc /\ resp.net = "ok" /\ Status(resp) = status

InitialContent == [message |-> ""]

NoCall == [arg |-> JNull, state |-> "none"]

\* the script's top level: the globals, then loadDocuments() on page load
InitPage ==
    /\ currentDocumentId = Null
    /\ currentPodcastText = NullS
    /\ documents_metadata = Registry({})
    /\ documentView = "none"
    /\ currentDocTitle = ""
    /\ pdfViewer = ""
    /\ insightsContainer = "none"
    /\ insightsContent = InitialContent
    /\ podcastContainer = "none"
    /\ podcastContent = EmptyStr
    /\ relatedSections = "none"
    /\ relatedContent = InitialContent
    /\ loading = "none"
    /\ modals = << >>
    /\ fileInput = {}
    /\ utterance = NullS
    /\ serverDocs = StoredAtLoad
    /\ uploads = 0
    /\ ops = [o \in Slots |-> IF o = 1 THEN StartOp("load", Null, "list") ELSE IdleOp]

Init ==
    /\ InitPage
    /\ call = NoCall

(* ------------------------ analysis and narration ---------------------- *)

\* the call returns: its record keeps what it sent, received and reported
Finish(op, outcome, alert) ==
    [op EXCEPT !.pc = "done", !.outcome = outcome, !.alert = alert,
               !.numPages = 0, !.pageNum = 0, !.files = {}, !.listing = {}]

QuickInFlight == Cardinality({q \in Slots : ops[q].kind = "quick" /\ ~Free(q)})

\* quickAnalyzeDocument(docId), up to the first await: a grid button of a
\* listed document
quickAnalyzeDocument(o, d) ==
    /\ Free(o)
    /\ documentView = "none"
    /\ d \in DOMAIN documents_metadata
    /\ Len(modals) + QuickInFlight < MaxModals
    /\ loading' = "block"
    /\ ops' = [ops EXCEPT ![o] = StartOp("quick", d, "open")]
    /\ UNCHANGED << call, currentDocumentId, currentPodcastText, documents_metadata,
                    domVars, fileInput, utterance, serverDocs, uploads >>

\* analyzeFullDocument() -> analyzeDocument(currentDocumentId), up to the
\* first await
analyzeFullDocument(o) ==
    /\ Free(o)
    /\ currentDocumentId # Null
    /\ loading' = "block"
    /\ ops' = [ops EXCEPT ![o] = StartOp("full", currentDocumentId, "open")]
    /\ UNCHANGED << call, currentDocumentId, currentPodcastText, documents_metadata,
                    domVars, fileInput, utterance, serverDocs, uploads >>

\* generatePodcast(), up to the first await
generatePodcast(o) ==
    /\ Free(o)
    /\ currentDocumentId # Null
    /\ loading' = "block"
    /\ ops' = [ops EXCEPT ![o] = StartOp("podcast", currentDocumentId, "open")]
    /\ UNCHANGED << call, currentDocumentId, currentPodcastText, documents_metadata,
                    domVars, fileInput, utterance, serverDocs, uploads >>

Extracting(o) == ops[o].kind \in {"quick", "full", "podcast"}

\* a caller that sends the podcast request without the length check
AfterExtract_podcastUnchecked(o, op0, text) ==
    LET op == [op0 EXCEPT !.acc = EmptyStr] IN
    IF op.kind # "podcast" /\ TooShort(text, Threshold(op.kind))
    THEN /\ loading' = "none"
         /\ ops' = [ops EXCEPT ![o] =
                      Finish([op EXCEPT !.text = text], "insufficient", "insufficient")]
    ELSE /\ UNCHANGED loading
         /\ ops' = [ops EXCEPT ![o] =
                IF op.kind = "podcast"
                THEN [op EXCEPT !.text = text, !.pc = "podcast",
                                !.podcastReq = Req(currentDocumentId, text, 0),
                                !.podcastResp = "pending", !.requests = @ + 1]
                ELSE [op EXCEPT !.text = text, !.pc = "insight",
                                !.insightReq = Req(op.doc, text, 0),
                                !.insightResp = "pending", !.requests = @ + 1]]

\* the caller resumed with the extractor's result: the length check, then
\* either the alert and return, or the request
AfterExtract(o, op0, text) ==
    LET op == [op0 EXCEPT !.acc = EmptyStr] IN
    IF TooShort(text, Threshold(op.kind))
    THEN /\ loading' = "none"
         /\ ops' = [ops EXCEPT ![o] =
                      Finish([op EXCEPT !.text = text], "insufficient", "insufficient")]
    ELSE /\ UNCHANGED loading
         /\ ops' = [ops EXCEPT ![o] =
                IF op.kind = "podcast"
                THEN [op EXCEPT !.text = text, !.pc = "podcast",
                                !.podcastReq = Req(currentDocumentId, text, 0),
                                !.podcastResp = "pending", !.requests = @ + 1]
                ELSE [op EXCEPT !.text = text, !.pc = "insight",
                                !.insightReq = Req(op.doc, text, 0),
                                !.insightResp = "pending", !.requests = @ + 1]]

\* pdfjsLib.getDocument(url).promise resolves with a document of n pages
getDocumentResolves(o, n) ==
    /\ Extracting(o) /\ ops[o].pc = "open"
    /\ LET op == [ops[o] EXCEPT !.numPages = n, !.pageNum = 1, !.acc = EmptyStr]
       IN  IF 1 <= PageLimit(ModeOf(op.kind), n)
           THEN /\ ops' = [ops EXCEPT ![o] = [op EXCEPT !.pc = "page"]]
                /\ UNCHANGED loading
           ELSE AfterExtract(o, op, Trim(op.acc))
    /\ UNCHANGED << call, currentDocumentId, currentPodcastText, documents_metadata,
                    domVars, fileInput, utterance, serverDocs, uploads >>

\* getDocument, getPage or getTextContent rejects: the extractor's catch
extractionRejects(o) ==
    /\ Extracting(o) /\ ops[o].pc \in {"open", "page", "pageText"}
    /\ AfterExtract(o, [ops[o] EXCEPT !.extractFailed = TRUE,
                                      !.logged = "extraction failed"],
                    ExtractFallback(ModeOf(ops[o].kind)))
    /\ UNCHANGED << call, currentDocumentId, currentPodcastText, documents_metadata,
                    domVars, fileInput, utterance, serverDocs, uploads >>

\* pdf.getPage(pageNum) resolves: the extractor calls page.getTextContent()
getPageResolves(o) ==
    /\ Extracting(o) /\ ops[o].pc = "page"
    /\ ops' = [ops EXCEPT ![o] = [@ EXCEPT !.pc = "pageText"]]
    /\ UNCHANGED << call, currentDocumentId, currentPodcastText, documents_metadata,
                    domVars, loading, fileInput, utterance, serverDocs, uploads >>

\* page.getTextContent() resolves with the items
pageResolves(o, items) ==
    /\ Extracting(o) /\ ops[o].pc = "pageText"
    /\ LET mode == ModeOf(ops[o].kind)
           step == PageStep(mode, ops[o].acc, items)
           op == [ops[o] EXCEPT !.acc = step.acc,
                                !.pagesRead = Append(@, ops[o].pageNum),
                                !.truncated = step.brk]
       IN  IF step.brk \/ op.pageNum + 1 > PageLimit(mode, op.numPages)
           THEN AfterExtract(o, op, Trim(step.acc))
           ELSE /\ ops' = [ops EXCEPT ![o] = [op EXCEPT !.pageNum = op.pageNum + 1,
                                                        !.pc = "page"]]
                /\ UNCHANGED loading
    /\ UNCHANGED << call, currentDocumentId, currentPodcastText, documents_metadata,
                    domVars, fileInput, utterance, serverDocs, uploads >>

\* the fetch of POST /api/insights/{id} resolves, with whatever status: the
\* handler calls response.json()
quickFetchResolves(o, resp) ==
    /\ ops[o].kind = "quick" /\ ops[o].pc = "insight"
    /\ resp.net = "ok"
    /\ ops' = [ops EXCEPT ![o] =
                 [@ EXCEPT !.pc = "insightBody", !.insightResp = Status(resp)]]
    /\ UNCHANGED << call, currentDocumentId, currentPodcastText, documents_metadata,
                    domVars, loading, fileInput, utterance, serverDocs, uploads >>

\* quickAnalyzeDocument resumed by the rejection of its fetch, or by the
\* outcome of response.json()
quickInsightResponse(o, resp) ==
    /\ ops[o].kind = "quick"
    /\ Resumes(ops[o], "insight", "insightBody", ops[o].insightResp, resp)
    /\ LET op == [ops[o] EXCEPT !.insightResp = Status(resp)]
           miss == op.doc \notin DOMAIN documents_metadata
           shown == showQuickInsights(resp.body, documents_metadata[op.doc].title)
       IN  IF FetchJsonRejects(resp) \/ miss \/ shown.threw
           THEN /\ ops' = [ops EXCEPT ![o] =
                             Finish([op EXCEPT !.logged = "Quick analysis failed"],
                                    "failed", "failed")]
                /\ UNCHANGED modals
           ELSE /\ ops' = [ops EXCEPT ![o] =
                             Finish([op EXCEPT !.rendered = TRUE], "ok", "none")]
                /\ modals' = Append(modals, shown.modal)
    /\ loading' = "none"
    /\ UNCHANGED << call, currentDocumentId, currentPodcastText, documents_metadata,
                    documentView, currentDocTitle, pdfViewer, insightsContainer,
                    insightsContent, podcastContainer, podcastContent,
                    relatedSections, relatedContent, fileInput, utterance,
                    serverDocs, uploads >>

\* the fetch of POST /api/insights/{id} resolves, with whatever status: the
\* handler calls response.json()
fullFetchResolves(o, resp) ==
    /\ ops[o].kind = "full" /\ ops[o].pc = "insight"
    /\ resp.net = "ok"
    /\ ops' = [ops EXCEPT ![o] =
                 [@ EXCEPT !.pc = "insightBody", !.insightResp = Status(resp)]]
    /\ UNCHANGED << call, currentDocumentId, currentPodcastText, documents_metadata,
                    domVars, loading, fileInput, utterance, serverDocs, uploads >>

\* analyzeDocument resumed by the rejection of its fetch, or by the outcome
\* of response.json(): displayInsights, then showRelatedSections up to its
\* fetch
fullInsightResponse(o, resp) ==
    /\ ops[o].kind = "full"
    /\ Resumes(ops[o], "insight", "insightBody", ops[o].insightResp, resp)
    /\ LET op == [ops[o] EXCEPT !.insightResp = Status(resp)]
           shown == displayInsights(resp.body)
       IN  IF FetchJsonRejects(resp) \/ shown.threw
           THEN /\ ops' = [ops EXCEPT ![o] =
                             Finish([op EXCEPT !.logged = "Analysis failed"],
                                    "failed", "failed")]
                /\ loading' = "none"
                /\ UNCHANGED << insightsContent, insightsContainer >>
           ELSE /\ insightsContent' = shown.content
                /\ insightsContainer' = "block"
                /\ IF Truthy(op.text)
                   THEN /\ ops' = [ops EXCEPT ![o] =
                                [op EXCEPT !.rendered = TRUE, !.pc = "related",
                                           !.relatedReq = Req(op.doc, op.text, RelatedK),
                                           !.relatedResp = "pending",
                                           !.requests = @ + 1]]
                        /\ UNCHANGED loading
                   ELSE /\ ops' = [ops EXCEPT ![o] =
                                Finish([op EXCEPT !.rendered = TRUE], "ok", "none")]
                        /\ loading' = "none"
    /\ UNCHANGED << call, currentDocumentId, currentPodcastText, documents_metadata,
                    documentView, currentDocTitle, pdfViewer, podcastContainer,
                    podcastContent, relatedSections, relatedContent, modals,
                    fileInput, utterance, serverDocs, uploads >>

\* a catch that lets the failure reach analyzeDocument's catch
relatedCatch_rethrows(op) ==
    Finish([op EXCEPT !.logged = "Analysis failed"], "failed", "failed")

\* the catch of showRelatedSections: console.error, nothing rethrown, so
\* analyzeDocument completes
relatedCatch(op) ==
    Finish([op EXCEPT !.logged = "Failed to load related sections"], "ok", "none")

\* the fetch of GET /api/related resolves, with whatever status:
\* showRelatedSections calls response.json()
relatedFetchResolves(o, resp) ==
    /\ ops[o].kind = "full" /\ ops[o].pc = "related"
    /\ resp.net = "ok"
    /\ ops' = [ops EXCEPT ![o] =
                 [@ EXCEPT !.pc = "relatedBody", !.relatedResp = Status(resp)]]
    /\ UNCHANGED << call, currentDocumentId, currentPodcastText, documents_metadata,
                    domVars, loading, fileInput, utterance, serverDocs, uploads >>

\* showRelatedSections resumed by the rejection of its fetch, or by the
\* outcome of response.json(); its catch only logs, and analyzeDocument
\* then runs its finally
relatedResponse(o, resp) ==
    /\ ops[o].kind = "full"
    /\ Resumes(ops[o], "related", "relatedBody", ops[o].relatedResp, resp)
    /\ LET op == [ops[o] EXCEPT !.relatedResp = Status(resp)]
       IN  IF FetchJsonRejects(resp) \/ RelatedThrows(resp.body)
           THEN /\ ops' = [ops EXCEPT ![o] = relatedCatch(op)]
                /\ UNCHANGED << relatedContent, relatedSections >>
           ELSE /\ ops' = [ops EXCEPT ![o] = Finish(op, "ok", "none")]
                /\ relatedContent' = RelatedContent(resp.body)
                /\ relatedSections' = "block"
    /\ loading' = "none"
    /\ UNCHANGED << call, currentDocumentId, currentPodcastText, documents_metadata,
                    documentView, currentDocTitle, pdfViewer, insightsContainer,
                    insightsContent, podcastContainer, podcastContent, modals,
                    fileInput, utterance, serverDocs, uploads >>

\* the fetch of POST /api/podcast/{id} resolves, with whatever status: the
\* handler calls response.json()
podcastFetchResolves(o, resp) ==
    /\ ops[o].kind = "podcast" /\ ops[o].pc = "podcast"
    /\ resp.net = "ok"
    /\ ops' = [ops EXCEPT ![o] =
                 [@ EXCEPT !.pc = "podcastBody", !.podcastResp = Status(resp)]]
    /\ UNCHANGED << call, currentDocumentId, currentPodcastText, documents_metadata,
                    domVars, loading, fileInput, utterance, serverDocs, uploads >>

\* generatePodcast resumed by the rejection of its fetch, or by the outcome
\* of response.json()
podcastResponse(o, resp) ==
    /\ ops[o].kind = "podcast"
    /\ Resumes(ops[o], "podcast", "podcastBody", ops[o].podcastResp, resp)
    /\ LET op == [ops[o] EXCEPT !.podcastResp = Status(resp)]
       IN  IF FetchJsonRejects(resp) \/ resp.body.type = "null"
           THEN /\ ops' = [ops EXCEPT ![o] =
                             Finish([op EXCEPT !.logged = "Podcast generation failed"],
                                    "failed", "failed")]
                /\ UNCHANGED << currentPodcastText, podcastContent, podcastContainer >>
           ELSE /\ ops' = [ops EXCEPT ![o] =
                             Finish([op EXCEPT !.rendered = TRUE], "ok", "none")]
                /\ currentPodcastText' = PodcastScript(resp.body, op.text)
                /\ podcastContent' = PodcastExcerpt(PodcastScript(resp.body, op.text))
                /\ podcastContainer' = "block"
    /\ loading' = "none"
    /\ UNCHANGED << call, currentDocumentId, documents_metadata, documentView,
                    currentDocTitle, pdfViewer, insightsContainer, insightsContent,
                    relatedSections, relatedContent, modals, fileInput, utterance,
                    serverDocs, uploads >>

(* --------------------------- view transitions ------------------------- *)

\* viewDocument(docId): a grid button of a listed document
viewDocument(d) ==
    /\ documentView = "none"
    /\ d \in DOMAIN documents_metadata
    /\ currentDocumentId' = d
    /\ documentView' = "block"
    /\ pdfViewer' = d
    /\ currentDocTitle' = IF d \in DOMAIN documents_metadata
                          THEN documents_metadata[d].title ELSE currentDocTitle
    /\ insightsContainer' = "none"
    /\ podcastContainer' = "none"
    /\ relatedSections' = "none"
    /\ UNCHANGED << call, currentPodcastText, documents_metadata, insightsContent,
                    podcastContent, relatedContent, loading, modals, fileInput,
                    utterance, serverDocs, uploads, ops >>

goBack ==
    /\ documentView' = "none"
    /\ insightsContainer' = "none"
    /\ podcastContainer' = "none"
    /\ relatedSections' = "none"
    /\ currentDocumentId' = Null
    /\ UNCHANGED << call, currentPodcastText, documents_metadata, currentDocTitle,
                    pdfViewer, insightsContent, podcastContent, relatedContent,
                    loading, modals, fileInput, utterance, serverDocs, uploads, ops >>

closeModal ==
    /\ modals # << >>
    /\ modals' = Tail(modals)
    /\ UNCHANGED << call, currentDocumentId, currentPodcastText, documents_metadata,
                    documentView, currentDocTitle, pdfViewer, insightsContainer,
                    insightsContent, podcastContainer, podcastContent,
                    relatedSections, relatedContent, loading, fileInput,
                    utterance, serverDocs, uploads, ops >>

\* playPodcast(): cancels what is being spoken and speaks currentPodcastText
playPodcast ==
    /\ Truthy(currentPodcastText)
    /\ utterance' = currentPodcastText
    /\ UNCHANGED << call, currentDocumentId, currentPodcastText, documents_metadata,
                    domVars, loading, fileInput, serverDocs, uploads, ops >>

\* stopPodcast(), or the utterance reaching its end
stopPodcast ==
    /\ utterance # NullS
    /\ utterance' = NullS
    /\ UNCHANGED << call, currentDocumentId, currentPodcastText, documents_metadata,
                    domVars, loading, fileInput, serverDocs, uploads, ops >>

(* ------------------------- registry, delete, upload ------------------- *)

\* loadDocuments() as called at the end of another handler: the call in
\* slot o goes on as the refresh it started
StartLoad(op, alert) ==
    [StartOp("load", op.doc, "list") EXCEPT !.alert = alert, !.docStamp = op.docStamp]

\* the backend answers GET /api/documents with its listing of that moment
serverList(o) ==
    /\ ops[o].kind = "load" /\ ops[o].pc = "list"
    /\ ops' = [ops EXCEPT ![o] = [@ EXCEPT !.pc = "listReply", !.listing = serverDocs]]
    /\ UNCHANGED << call, currentDocumentId, currentPodcastText, documents_metadata,
                    domVars, loading, fileInput, utterance, serverDocs, uploads >>

\* the fetch of GET /api/documents resolves: loadDocuments calls
\* response.json()
loadFetchResolves(o) ==
    /\ ops[o].kind = "load" /\ ops[o].pc = "listReply"
    /\ ops' = [ops EXCEPT ![o] = [@ EXCEPT !.pc = "listBody"]]
    /\ UNCHANGED << call, currentDocumentId, currentPodcastText, documents_metadata,
                    domVars, loading, fileInput, utterance, serverDocs, uploads >>

\* loadDocuments resumed by the parsed listing: the registry is replaced and
\* the grid redrawn (the grid shows exactly the registry's documents)
loadResponse(o) ==
    /\ ops[o].kind = "load" /\ ops[o].pc = "listBody"
    /\ documents_metadata' = Registry(ops[o].listing)
    /\ ops' = [ops EXCEPT ![o] = Finish(@, "ok", @.alert)]
    /\ UNCHANGED << call, currentDocumentId, currentPodcastText, domVars, loading,
                    fileInput, utterance, serverDocs, uploads >>

\* the fetch or response.json() of loadDocuments rejects: logged only
loadRejects(o) ==
    /\ ops[o].kind = "load" /\ ops[o].pc \in {"list", "listReply", "listBody"}
    /\ ops' = [ops EXCEPT ![o] =
                 Finish([@ EXCEPT !.logged = "Failed to load documents"],
                        "failed", @.alert)]
    /\ UNCHANGED << call, currentDocumentId, currentPodcastText, documents_metadata,
                    domVars, loading, fileInput, utterance, serverDocs, uploads >>

\* a delete that drops the document from the registry at once
deleteDocument_optimistic(o, d) ==
    /\ ops[o].pc \in {"idle", "done"}
    /\ documentView = "none"
    /\ d \in DOMAIN documents_metadata
    /\ documents_metadata' =
          [x \in DOMAIN documents_metadata \ {d} |-> documents_metadata[x]]
    /\ ops' = [ops EXCEPT ![o] =
                 [IdleOp EXCEPT !.kind = "delete", !.doc = d, !.pc = "delete",
                                !.outcome = "running",
                                !.docStamp = documents_metadata[d].processed_at]]
    /\ UNCHANGED << call, currentDocumentId, currentPodcastText, domVars, loading,
                    fileInput, utterance, serverDocs, uploads >>

\* deleteDocument(docId) with the confirm accepted, up to its fetch
deleteDocument(o, d) ==
    /\ Free(o)
    /\ documentView = "none"
    /\ d \in DOMAIN documents_metadata
    /\ ops' = [ops EXCEPT ![o] =
                 [StartOp("delete", d, "delete") EXCEPT
                    !.docStamp = documents_metadata[d].processed_at]]
    /\ UNCHANGED << call, currentDocumentId, currentPodcastText, documents_metadata,
                    domVars, loading, fileInput, utterance, serverDocs, uploads >>

\* the processed_at of document d among docs, or else when it holds none
StampOf(docs, d, else) ==
    IF \E m \in docs : m.id = d
    THEN (CHOOSE m \in docs : m.id = d).processed_at
    ELSE else

\* the backend handles DELETE /api/documents/{id}
serverDelete(o, ok) ==
    /\ ops[o].kind = "delete" /\ ops[o].pc = "delete"
    /\ serverDocs' = IF ok THEN { m \in serverDocs : m.id # ops[o].doc }
                         ELSE serverDocs
    /\ ops' = [ops EXCEPT ![o] =
                 [@ EXCEPT !.pc = IF ok THEN "deleteOk" ELSE "deleteNotOk",
                           !.docStamp = IF ok THEN StampOf(serverDocs, ops[o].doc, @)
                                        ELSE @]]
    /\ UNCHANGED << call, currentDocumentId, currentPodcastText, documents_metadata,
                    domVars, loading, fileInput, utterance, uploads >>

\* deleteDocument resumed by the reply: on response.ok the alert and
\* loadDocuments(), otherwise the failure alert
deleteResponse(o) ==
    /\ ops[o].kind = "delete" /\ ops[o].pc \in {"deleteOk", "deleteNotOk"}
    /\ ops' = [ops EXCEPT ![o] =
                 IF @.pc = "deleteOk"
                 THEN StartLoad(@, "Document deleted successfully")
                 ELSE Finish(@, "failed", "Delete failed")]
    /\ UNCHANGED << call, currentDocumentId, currentPodcastText, documents_metadata,
                    domVars, loading, fileInput, utterance, serverDocs, uploads >>

\* the DELETE fetch rejects, before or after the backend handled it
deleteRejects(o) ==
    /\ ops[o].kind = "delete" /\ ops[o].pc \in {"delete", "deleteOk", "deleteNotOk"}
    /\ ops' = [ops EXCEPT ![o] = Finish(@, "failed", "Delete failed")]
    /\ UNCHANGED << call, currentDocumentId, currentPodcastText, documents_metadata,
                    domVars, loading, fileInput, utterance, serverDocs, uploads >>

\* the change event of #fileInput
selectFiles(files) ==
    /\ fileInput # files
    /\ fileInput' = files
    /\ UNCHANGED << call, currentDocumentId, currentPodcastText, documents_metadata,
                    domVars, loading, utterance, serverDocs, uploads, ops >>

\* uploadFile() with files selected, up to its fetch
uploadFile(o) ==
    /\ Free(o)
    /\ fileInput # {}
    /\ loading' = "block"
    /\ ops' = [ops EXCEPT ![o] = [StartOp("upload", Null, "upload") EXCEPT
                                    !.files = fileInput]]
    /\ UNCHANGED << call, currentDocumentId, currentPodcastText, documents_metadata,
                    domVars, fileInput, utterance, serverDocs, uploads >>

\* the backend handles POST /api/upload/bulk: the files it accepts are
\* processed into documents that take the place of any it held under
\* their identifiers
serverUpload(o, ok) ==
    /\ ops[o].kind = "upload" /\ ops[o].pc = "upload"
    /\ ok => uploads < MaxUploads
    /\ IF ok
       THEN /\ uploads' = uploads + 1
            /\ serverDocs' = { m \in serverDocs : m.id \notin ops[o].files }
                                \cup { Metadata(d, uploads + 1) : d \in ops[o].files }
       ELSE UNCHANGED << serverDocs, uploads >>
    /\ ops' = [ops EXCEPT ![o] =
                 [@ EXCEPT !.pc = IF ok THEN "uploadOk" ELSE "uploadNotOk"]]
    /\ UNCHANGED << call, currentDocumentId, currentPodcastText, documents_metadata,
                    domVars, loading, fileInput, utterance >>

\* the upload fetch resolves: on response.ok uploadFile calls
\* response.json(), otherwise it throws into its catch and finally
uploadFetchResolves(o) ==
    /\ ops[o].kind = "upload" /\ ops[o].pc \in {"uploadOk", "uploadNotOk"}
    /\ IF ops[o].pc = "uploadOk"
       THEN /\ ops' = [ops EXCEPT ![o] = [@ EXCEPT !.pc = "uploadBody"]]
            /\ UNCHANGED loading
       ELSE /\ ops' = [ops EXCEPT ![o] = Finish(@, "failed", "Upload failed")]
            /\ loading' = "none"
    /\ UNCHANGED << call, currentDocumentId, currentPodcastText, documents_metadata,
                    domVars, fileInput, utterance, serverDocs, uploads >>

\* uploadFile resumed by the outcome of response.json(): with a JSON body
\* the alert, the input cleared and loadDocuments(); then the finally
uploadResponse(o, json) ==
    /\ ops[o].kind = "upload" /\ ops[o].pc = "uploadBody"
    /\ IF json
       THEN /\ fileInput' = {}
            /\ ops' = [ops EXCEPT ![o] = StartLoad(@, "Successfully uploaded")]
       ELSE /\ UNCHANGED fileInput
            /\ ops' = [ops EXCEPT ![o] = Finish(@, "failed", "Upload failed")]
    /\ loading' = "none"
    /\ UNCHANGED << call, currentDocumentId, currentPodcastText, documents_metadata,
                    domVars, utterance, serverDocs, uploads >>

\* the upload fetch rejects, before or after the backend handled it
uploadRejects(o) ==
    /\ ops[o].kind = "upload"
    /\ ops[o].pc \in {"upload", "uploadOk", "uploadNotOk", "uploadBody"}
    /\ ops' = [ops EXCEPT ![o] = Finish(@, "failed", "Upload failed")]
    /\ loading' = "none"
    /\ UNCHANGED << call, currentDocumentId, currentPodcastText, documents_metadata,
                    domVars, fileInput, utterance, serverDocs, uploads >>

(* ------------------------------ environment --------------------------- *)

MaxPages == 1

\* a text item of n characters of document d
Word(d, n) == Chars(d, n)

\* what a page of document d may hold: a short and a long page when rich is
\* FALSE; with rich, pages on both sides of every length threshold, a page
\* of two items, pages with blank items and a page above the sample cap
PageItems(d, rich) ==
    IF rich
    THEN { << >>, << Word(d, 29) >>, << Word(d, 30) >>, << Word(d, 49) >>,
           << Word(d, 50) >>, << Word(d, 99) >>, << Word(d, 100) >>,
           << Word(d, 14), Word(d, 14) >>, << Word(d, 14), Word(d, 15) >>,
           << Chars(" ", 3), Word(d, 29), Chars(" ", 40) >>,
           << Chars(" ", 120) >>, << Word(d, 1001) >>,
           << Chars(" ", 990), Word(d, 20) >> }
    ELSE { << Word(d, 29) >>, << Word(d, 100) >> }

ErrorBody == [type |-> "object", detail |-> Literal("Internal Server Error")]

Items(name) == JArray(<< Literal(name) >>)

FullBundle ==
    [type |-> "object", key_insights |-> Items("k"), did_you_know |-> Items("f"),
     counterpoints |-> Items("c"), connections |-> Items("n")]

InsightBody(b) == [type |-> "object", insights |-> b]

\* replies to the insight request: a rejected fetch and a full bundle; with
\* rich also error statuses, bodies that are not JSON, and bundles with
\* parts missing
InsightResponses(rich) ==
    { TransportFailure, Response(TRUE, InsightBody(FullBundle)) }
    \cup IF rich
         THEN { Response(FALSE, ErrorBody), Response(FALSE, NotJson),
                Response(TRUE, NotJson), Response(TRUE, JNull),
                Response(TRUE, InsightBody(JNull)), Response(TRUE, [type |-> "object"]),
                Response(TRUE, InsightBody([type |-> "object",
                                            key_insights |-> Items("k"),
                                            did_you_know |-> JNull,
                                            counterpoints |-> JArray(<< >>)])) }
         ELSE { }

Section(d) == [type |-> "object", text |-> Word(d, 500),
               meta |-> [type |-> "object", page |-> 7], score |-> 87]

\* replies to the related-sections request for document d
RelatedResponses(d, rich) ==
    { TransportFailure, Response(TRUE, JArray(<< Section(d) >>)) }
    \cup IF rich
         THEN { Response(TRUE, NotJson), Response(FALSE, ErrorBody),
                Response(TRUE, JNull), Response(TRUE, JArray(<< >>)),
                Response(TRUE, JArray(<< [type |-> "object", text |-> Word(d, 20)] >>)),
                Response(TRUE, JArray(<< [type |-> "object", text |-> Word(d, 20),
                                          score |-> 0 - 5] >>)),
                Response(TRUE, JArray(<< Section(d), [type |-> "object"] >>)) }
         ELSE { }

\* replies to the podcast request
PodcastResponses(rich) ==
    { TransportFailure, Response(TRUE, [type |-> "object", script |-> Chars("S", 600)]) }
    \cup IF rich
         THEN { Response(FALSE, ErrorBody), Response(TRUE, NotJson), Response(TRUE, JNull),
                Response(TRUE, [type |-> "object", script |-> EmptyStr,
                                text_content |-> Chars("T", 40)]),
                Response(TRUE, [type |-> "object", script |-> NullS]) }
         ELSE { }

\* what the file dialog may leave selected: nothing, or a file the backend
\* processes into document d1
Files == { {}, {"d1"} }

\* documents for the page loop: d1 is long with uniform pages, d2 is short
\* with pages around the sample's character cap
DocPageCounts(d) == IF d = "d1" THEN {0, 1, 2, 3, 4, 9, 10, 11, 12} ELSE 0..4

DocPages(d) ==
    IF d = "d1"
    THEN { << Word(d, 120) >> }
    ELSE { << Word(d, 400) >>, << Word(d, 600) >>, << Word(d, 998) >>,
           << Word(d, 999) >>, << Chars(" ", 5), Word(d, 996) >> }

\* the extractor's resumptions over those documents
ExtractDocStep(S) ==
    \/ \E o \in S : \E n \in DocPageCounts(ops[o].doc) : getDocumentResolves(o, n)
    \/ \E o \in S : extractionRejects(o)
    \/ \E o \in S : getPageResolves(o)
    \/ \E o \in S : \E items \in DocPages(ops[o].doc) : pageResolves(o, items)

\* the extractor's resumptions, for the calls of the slots in S
ExtractStep(S, richPages) ==
    \/ \E o \in S, n \in 0..MaxPages : getDocumentResolves(o, n)
    \/ \E o \in S : extractionRejects(o)
    \/ \E o \in S : getPageResolves(o)
    \/ \E o \in S : \E items \in PageItems(ops[o].doc, richPages) : pageResolves(o, items)

QuickStep(S, richReplies) ==
    \/ \E o \in S, d \in Docs : quickAnalyzeDocument(o, d)
    \/ \E o \in S : \E resp \in InsightResponses(richReplies) :
            quickFetchResolves(o, resp)
    \/ \E o \in S : \E resp \in InsightResponses(richReplies) :
            quickInsightResponse(o, resp)
    \/ closeModal

FullStep(S, richReplies) ==
    \/ \E o \in S : analyzeFullDocument(o)
    \/ \E o \in S : \E resp \in InsightResponses(richReplies) :
            fullFetchResolves(o, resp)
    \/ \E o \in S : \E resp \in InsightResponses(richReplies) :
            fullInsightResponse(o, resp)
    \/ \E o \in S : \E resp \in RelatedResponses(ops[o].doc, richReplies) :
            relatedFetchResolves(o, resp)
    \/ \E o \in S : \E resp \in RelatedResponses(ops[o].doc, richReplies) :
            relatedResponse(o, resp)

PodcastStep(S, richReplies) ==
    \/ \E o \in S : generatePodcast(o)
    \/ \E o \in S : \E resp \in PodcastResponses(richReplies) :
            podcastFetchResolves(o, resp)
    \/ \E o \in S : \E resp \in PodcastResponses(richReplies) : podcastResponse(o, resp)

\* the user's view transitions
ViewStep ==
    \/ \E d \in Docs : viewDocument(d)
    \/ goBack

SpeechStep ==
    \/ playPodcast
    \/ stopPodcast

\* registry refreshes of the slots in S
LoadStep(S) ==
    \/ \E o \in S : serverList(o)
    \/ \E o \in S : loadFetchResolves(o)
    \/ \E o \in S : loadResponse(o)
    \/ \E o \in S : loadRejects(o)

DeleteStep(S) ==
    \/ \E o \in S, d \in Docs : deleteDocument(o, d)
    \/ \E o \in S, ok \in BOOLEAN : serverDelete(o, ok)
    \/ \E o \in S : deleteResponse(o)
    \/ \E o \in S : deleteRejects(o)

UploadStep(S) ==
    \/ \E files \in Files : selectFiles(files)
    \/ \E o \in S : uploadFile(o)
    \/ \E o \in S, ok \in BOOLEAN : serverUpload(o, ok)
    \/ \E o \in S : uploadFetchResolves(o)
    \/ \E o \in S, json \in BOOLEAN : uploadResponse(o, json)
    \/ \E o \in S : uploadRejects(o)

(***************************************************************************)
(* The specifications.  Each composes the handlers its properties are      *)
(* about: every handler that starts a call of a kind they speak of, and    *)
(* every handler that writes another variable they read.  The handlers     *)
(* left out of a specification start calls of other kinds only and write   *)
(* no other variable its properties read.  The specifications differ also  *)
(* in how many calls run side by side and in how rich the pages and the    *)
(* replies are.                                                            *)
(***************************************************************************)

\* the three analyses, one call at a time, over every kind of reply
Next ==
    \/ ExtractStep({1}, FALSE)
    \/ QuickStep({1}, TRUE)
    \/ FullStep({1}, TRUE)
    \/ PodcastStep({1}, TRUE)
    \/ ViewStep
    \/ LoadStep({1})
Spec == Init /\ [][Next]_vars

\* the three pipelines, one call at a time, over pages on both sides of
\* every length threshold
NextSeq ==
    \/ ExtractStep({1}, TRUE)
    \/ QuickStep({1}, FALSE)
    \/ FullStep({1}, FALSE)
    \/ PodcastStep({1}, FALSE)
    \/ ViewStep
    \/ LoadStep({1})
SpecSeq == Init /\ [][NextSeq]_vars

\* the session record: narration, playback, view transitions and deletes
NextSession ==
    \/ ExtractStep(Slots, FALSE)
    \/ PodcastStep(Slots, FALSE)
    \/ ViewStep
    \/ SpeechStep
    \/ LoadStep(Slots)
    \/ DeleteStep(Slots)
SpecSession == Init /\ [][NextSession]_vars

\* the extractors over long documents and pages around the character cap
NextExtract ==
    \/ ExtractDocStep({1})
    \/ QuickStep({1}, FALSE)
    \/ FullStep({1}, FALSE)
    \/ PodcastStep({1}, FALSE)
    \/ ViewStep
    \/ LoadStep({1})
SpecExtract == Init /\ [][NextExtract]_vars

\* the registry: refreshes, deletes and uploads running side by side
NextRegistry ==
    \/ LoadStep(Slots)
    \/ DeleteStep(Slots)
    \/ UploadStep(Slots)
    \/ ViewStep
SpecRegistry == Init /\ [][NextRegistry]_vars

\* quick analyses running while documents are deleted and uploaded and the
\* registry is refreshed
NextQuick ==
    \/ ExtractStep(Slots, FALSE)
    \/ QuickStep(Slots, FALSE)
    \/ LoadStep(Slots)
    \/ DeleteStep(Slots)
    \/ UploadStep(Slots)
SpecQuick == Init /\ [][NextQuick]_vars

\* every call that can fail, one at a time: the analyses, the refresh, the
\* delete and the upload
NextReport ==
    \/ ExtractStep({1}, FALSE)
    \/ QuickStep({1}, FALSE)
    \/ FullStep({1}, TRUE)
    \/ PodcastStep({1}, TRUE)
    \/ LoadStep({1})
    \/ DeleteStep({1})
    \/ UploadStep({1})
    \/ \E d \in Docs : viewDocument(d)
SpecReport == Init /\ [][NextReport]_vars

\* the loading indicator: every handler that shows or hides it, running
\* side by side
NextLoading ==
    \/ ExtractStep(Slots, FALSE)
    \/ QuickStep(Slots, FALSE)
    \/ FullStep(Slots, FALSE)
    \/ PodcastStep(Slots, FALSE)
    \/ UploadStep(Slots)
    \/ LoadStep(Slots)
    \/ \E d \in Docs : viewDocument(d)
SpecLoading == Init /\ [][NextLoading]_vars

(* ----------------------- displayInsights on its own ------------------- *)

\* what a field of the insights object may hold: omitted, null, an empty
\* array, an array of one item, an array with markup characters and an
\* empty item
FieldValues ==
    { JUndefined, JNull, JArray(<< >>), JArray(<< Literal("x") >>),
      JArray(<< Cat(Chars("<", 1), Cat(Chars("b", 1), Chars("&", 2))), EmptyStr >>) }

Bundles ==
    { [type |-> "object", key_insights |-> k, did_you_know |-> f,
       counterpoints |-> c, connections |-> n] :
        k \in FieldValues, f \in FieldValues, c \in FieldValues, n \in FieldValues }

\* the parsed bodies displayInsights may be handed
DisplayInputs ==
    { JNull, [type |-> "object"], InsightBody(JNull), ErrorBody }
    \cup { InsightBody(b) : b \in Bundles }

InitDisplay ==
    /\ InitPage
    /\ call \in { [arg |-> b, state |-> "pending"] : b \in DisplayInputs }

\* displayInsights(call.arg)
applyDisplayInsights ==
    /\ call.state = "pending"
    /\ LET shown == displayInsights(call.arg)
       IN  IF shown.threw
           THEN /\ call' = [call EXCEPT !.state = "threw"]
                /\ UNCHANGED << insightsContent, insightsContainer >>
           ELSE /\ call' = [call EXCEPT !.state = "returned"]
                /\ insightsContent' = shown.content
                /\ insightsContainer' = "block"
    /\ UNCHANGED << currentDocumentId, currentPodcastText, documents_metadata,
                    documentView, currentDocTitle, pdfViewer, podcastContainer,
                    podcastContent, relatedSections, relatedContent, loading,
                    modals, fileInput, utterance, serverDocs, uploads, ops >>

NextDisplay == applyDisplayInsights
SpecDisplay == InitDisplay /\ [][NextDisplay]_vars

(* ------------------- the podcast reply handled on its own ------------- *)

\* what script and text_content may hold: omitted, null, empty, blank, a
\* short and a long string
ScriptValues(c) ==
    { AbsentS, NullS, EmptyStr, Chars(" ", 1), Chars(c, 1), Chars(c, 600) }

PodcastBodies ==
    { [type |-> "object", script |-> s, text_content |-> t] :
        s \in ScriptValues("S"), t \in ScriptValues("T") }
    \cup { [type |-> "object"], JNull, ErrorBody }

\* extracted texts that pass the podcast threshold: a page of one item and a
\* page of two
PodcastTexts ==
    { Word("d1", 100), Word("d1", 600),
      PageText(<< Word("d1", 60), Word("d1", 60) >>) }

\* generatePodcast of document d1 suspended at `await response.json()`: it
\* read the one page, sent the text and its fetch resolved with status ok
PodcastCall(text) ==
    [StartOp("podcast", "d1", "podcastBody") EXCEPT
        !.numPages = 1, !.pageNum = 1, !.pagesRead = << 1 >>, !.text = text,
        !.podcastReq = Req("d1", text, 0), !.podcastResp = "ok", !.requests = 1]

\* the page at that point: the registry loaded, document d1 opened from the
\* grid, the loading indicator shown by generatePodcast
InitPodcast ==
    /\ currentDocumentId = "d1"
    /\ currentPodcastText = NullS
    /\ documents_metadata = Registry(StoredAtLoad)
    /\ documentView = "block"
    /\ currentDocTitle = Metadata("d1", 0).title
    /\ pdfViewer = "d1"
    /\ insightsContainer = "none"
    /\ insightsContent = InitialContent
    /\ podcastContainer = "none"
    /\ podcastContent = EmptyStr
    /\ relatedSections = "none"
    /\ relatedContent = InitialContent
    /\ loading = "block"
    /\ modals = << >>
    /\ fileInput = {}
    /\ utterance = NullS
    /\ serverDocs = StoredAtLoad
    /\ uploads = 0
    /\ \E b \in PodcastBodies, t \in PodcastTexts :
          /\ call = [arg |-> b, text |-> t, state |-> "pending"]
          /\ ops = [o \in Slots |-> IF o = 1 THEN PodcastCall(t) ELSE IdleOp]

\* generatePodcast from `const podcast = await response.json()` to its
\* return, for the body call.arg and the extracted text call.text: the
\* container shown, or the catch's alert; then the finally
applyPodcastReply ==
    /\ call.state = "pending"
    /\ ops[1].kind = "podcast" /\ ops[1].pc = "podcastBody"
    /\ IF call.arg.type = "null"
       THEN /\ call' = [call EXCEPT !.state = "threw"]
            /\ ops' = [ops EXCEPT ![1] =
                         Finish([@ EXCEPT !.logged = "Podcast generation failed"],
                                "failed", "failed")]
            /\ UNCHANGED << currentPodcastText, podcastContent, podcastContainer >>
       ELSE /\ call' = [call EXCEPT !.state = "returned"]
            /\ ops' = [ops EXCEPT ![1] =
                         Finish([@ EXCEPT !.rendered = TRUE], "ok", "none")]
            /\ currentPodcastText' = PodcastScript(call.arg, ops[1].text)
            /\ podcastContent' = PodcastExcerpt(PodcastScript(call.arg, ops[1].text))
            /\ podcastContainer' = "block"
    /\ loading' = "none"
    /\ UNCHANGED << currentDocumentId, documents_metadata, documentView,
                    currentDocTitle, pdfViewer, insightsContainer, insightsContent,
                    relatedSections, relatedContent, modals, fileInput,
                    utterance, serverDocs, uploads >>

NextPodcast == applyPodcastReply
SpecPodcast == InitPodcast /\ [][NextPodcast]_vars

(* ------------------------------ properties ---------------------------- *)

Analysis(o) == ops[o].kind \in {"quick", "full", "podcast"}

\* the request an analysis call exists to send
BackendRequestSent(op) ==
    IF op.kind = "podcast" THEN op.podcastReq.sent ELSE op.insightReq.sent

NetworkError(status) == status \in {"transport_failure", "http_error"}

\* C1: whenever the extractor of a quickAnalyze, fullAnalyze or
\* generatePodcast call has failed, the call holds the extractor's non-empty
\* placeholder and has gone on to send its backend request.
C1_ExtractionFailureProceeds ==
    \A o \in Slots :
        (Analysis(o) /\ ops[o].extractFailed) =>
            /\ ops[o].text = ExtractFallback(ModeOf(ops[o].kind))
            /\ StrLen(ops[o].text) > 0
            /\ BackendRequestSent(ops[o])

\* C2: a fullAnalyze call has sent the related-sections request only if its
\* insight request has completed with a success status, and then with the
\* text of the insight request, a result count of 5, and once.
C2_RelatedOnlyAfterInsightSuccess ==
    \A o \in Slots :
        (ops[o].kind = "full" /\ ops[o].relatedReq.sent) =>
            /\ ops[o].insightResp = "ok"
            /\ ops[o].relatedReq.text = ops[o].insightReq.text
            /\ ops[o].relatedReq.k = RelatedK
            /\ ops[o].requests = 2

\* C3: a call whose insight, related-sections or podcast request met a
\* transport failure or a non-success status has rendered nothing from that
\* reply, and once returned it has reported the failure.
C3_NetworkErrorAborts ==
    \A o \in Slots :
        /\ (ops[o].kind \in {"quick", "full"} /\ NetworkError(ops[o].insightResp)) =>
              /\ ~ops[o].rendered
              /\ ops[o].pc = "done" =>
                    (ops[o].outcome = "failed" /\ ops[o].alert = "failed")
        /\ (ops[o].kind = "podcast" /\ NetworkError(ops[o].podcastResp)) =>
              /\ ~ops[o].rendered
              /\ ops[o].pc = "done" =>
                    (ops[o].outcome = "failed" /\ ops[o].alert = "failed")

\* the related-sections request of a returned call failed
RelatedFailed(op) ==
    \/ NetworkError(op.relatedResp)
    \/ op.logged = "Failed to load related sections"

\* C4: the step in which a fullAnalyze call learns that its related-sections
\* request failed leaves the insights display as it was, and the call
\* returns as a success with its insights rendered and no failure alert.
C4_RelatedFailureIsPartial ==
    [][ \A o \in Slots :
          (ops[o].kind = "full" /\ ops[o].pc \in {"related", "relatedBody"}
           /\ ops'[o].pc = "done"
           /\ RelatedFailed(ops'[o])) =>
             /\ ops'[o].outcome = "ok"
             /\ ops'[o].alert = "none"
             /\ ops'[o].rendered
             /\ insightsContainer' = insightsContainer
             /\ insightsContent' = insightsContent ]_vars

C4_Witness ==
    \E o \in Slots :
        /\ ops[o].kind = "full" /\ ops[o].pc = "done"
        /\ ops[o].insightResp = "ok"
        /\ ops[o].relatedResp = "transport_failure"
        /\ ops[o].outcome = "ok"
        /\ insightsContainer = "block"
        /\ "keyInsights" \in DOMAIN insightsContent

NoRequestSent(op) ==
    /\ ~op.insightReq.sent /\ ~op.relatedReq.sent /\ ~op.podcastReq.sent
    /\ op.requests = 0

\* the call is past its length check and went on
Proceeded(op) ==
    \/ op.pc \in {"insight", "insightBody", "related", "relatedBody",
                  "podcast", "podcastBody"}
    \/ op.outcome \in {"ok", "failed"}

\* C5: a quickAnalyze call that stopped with InsufficientText extracted
\* fewer than 30 characters and sent no request; one that went on extracted
\* at least 30, sent the insight request, and never sends more than that one
\* request; before the check nothing is sent.
C5_QuickThreshold ==
    \A o \in Slots :
        ops[o].kind = "quick" =>
            /\ ops[o].outcome = "insufficient" =>
                  (StrLen(ops[o].text) < 30 /\ NoRequestSent(ops[o]))
            /\ Proceeded(ops[o]) =>
                  /\ StrLen(ops[o].text) >= 30
                  /\ ops[o].insightReq.sent /\ ops[o].insightReq.text = ops[o].text
                  /\ ~ops[o].relatedReq.sent
                  /\ ops[o].requests = 1
            /\ ops[o].pc \in {"open", "page", "pageText"} => NoRequestSent(ops[o])

C5_Witness ==
    \E o \in Slots :
        /\ ops[o].kind = "quick" /\ ops[o].outcome = "insufficient"
        /\ StrLen(ops[o].text) = 29
        /\ ~ops[o].extractFailed

\* C6: a fullAnalyze call that stopped with InsufficientText extracted fewer
\* than 50 characters and sent neither the insight nor the related-sections
\* request; one that went on extracted at least 50 and sent the insight
\* request; before the check nothing is sent.
C6_FullThreshold ==
    \A o \in Slots :
        ops[o].kind = "full" =>
            /\ ops[o].outcome = "insufficient" =>
                  (StrLen(ops[o].text) < 50 /\ NoRequestSent(ops[o]))
            /\ Proceeded(ops[o]) =>
                  /\ StrLen(ops[o].text) >= 50
                  /\ ops[o].insightReq.sent /\ ops[o].insightReq.text = ops[o].text
            /\ ops[o].pc \in {"open", "page", "pageText"} => NoRequestSent(ops[o])

C6_Witness ==
    \E o \in Slots :
        /\ ops[o].kind = "full" /\ ops[o].outcome = "insufficient"
        /\ StrLen(ops[o].text) = 49
        /\ ~ops[o].extractFailed

\* C7: the step in which a generatePodcast call stops with InsufficientText
\* happens on fewer than 100 extracted characters, sends no request and
\* leaves currentPodcastText as it was; the step in which it goes on happens
\* on at least 100 characters and sends the podcast request.
C7_PodcastThreshold ==
    [][ \A o \in Slots :
          (ops[o].kind = "podcast" /\ ops[o].pc \in {"open", "page", "pageText"}) =>
             /\ ops'[o].outcome = "insufficient" =>
                   /\ StrLen(ops'[o].text) < 100
                   /\ NoRequestSent(ops'[o])
                   /\ currentPodcastText' = currentPodcastText
             /\ ops'[o].pc = "podcast" =>
                   /\ StrLen(ops'[o].text) >= 100
                   /\ ops'[o].podcastReq.sent
                   /\ ops'[o].podcastReq.text = ops'[o].text
                   /\ ops'[o].requests = 1 ]_vars

C7_Witness ==
    \E o \in Slots :
        /\ ops[o].kind = "podcast" /\ ops[o].outcome = "insufficient"
        /\ StrLen(ops[o].text) = 99
        /\ ~ops[o].extractFailed
        /\ Truthy(currentPodcastText)

\* C8: every viewDocument step leaves currentDocumentId set to the opened
\* document and currentPodcastText empty, so that a playPodcast before the
\* next generatePodcast finds no narration to speak.
C8_OpenClearsNarration ==
    [][ (documentView = "none" /\ documentView' = "block") =>
            (currentDocumentId' \in Docs /\ currentPodcastText' = NullS) ]_vars

SessionEmpty == currentDocumentId = Null /\ currentPodcastText = NullS

\* C9: after every goBack step, and after every step in which the delete of
\* the open document is confirmed, currentDocumentId and currentPodcastText
\* are both empty.
C9_ResetOnBackAndDelete ==
    [][ /\ (documentView = "block" /\ documentView' = "none") => SessionEmpty'
        /\ \A o \in Slots :
              (ops[o].kind = "delete" /\ ops[o].pc = "deleteOk"
               /\ ops'[o].kind = "load" /\ ops[o].doc = currentDocumentId) =>
                  SessionEmpty' ]_vars

FourFields == {"keyInsights", "didYouKnow", "counterpoints", "connections"}

SourceField(f) ==
    IF f = "keyInsights" THEN "key_insights"
    ELSE IF f = "didYouKnow" THEN "did_you_know"
    ELSE f

Placeholder(f) ==
    IF f = "keyInsights" THEN NoKeyInsights
    ELSE IF f = "didYouKnow" THEN NoFacts
    ELSE IF f = "counterpoints" THEN NoCounterpoints
    ELSE NoConnections

\* the character an entity of the markup is shown as
Shown(c) ==
    IF c = "&lt;" THEN "<"
    ELSE IF c = "&gt;" THEN ">"
    ELSE IF c = "&amp;" THEN "&"
    ELSE c

\* the text the browser shows for the markup of one list item
RECURSIVE ShownText(_)
ShownText(html) ==
    IF html = << >> THEN << >>
    ELSE << <<Shown(html[1][1]), html[1][2]>> >> \o ShownText(Tail(html))

RECURSIVE ShownItems(_)
ShownItems(items) ==
    IF items = << >> THEN << >>
    ELSE << ShownText(items[1]) >> \o ShownItems(Tail(items))

\* the display holds the four fields, each the response's items or its placeholder
FourFieldsShown(bundle) ==
    /\ DOMAIN insightsContent = FourFields
    /\ \A f \in FourFields :
          \/ ShownItems(insightsContent[f]) = Placeholder(f)
          \/ /\ ~Nullish(Get(bundle, SourceField(f)))
             /\ ShownItems(insightsContent[f]) = Get(bundle, SourceField(f)).items

\* C10 as stated: whatever body displayInsights returned from, the display
\* holds all four fields.
C10_AllFourFieldsAlways ==
    call.state = "returned" => DOMAIN insightsContent = FourFields

\* C10 as amended: when displayInsights returned from a body whose insights
\* object is present, the display holds all four fields, each the response's
\* value or its one-element placeholder; when the insights object is absent
\* or null the display holds the "No insights generated" message alone.
C10_FourFieldsWhenInsightsPresent ==
    call.state = "returned" =>
        /\ insightsContainer = "block"
        /\ IF Nullish(Get(call.arg, "insights"))
           THEN insightsContent = [message |-> "No insights generated. Please try again."]
           ELSE FourFieldsShown(Get(call.arg, "insights"))

C10_Witness ==
    /\ call.state = "returned"
    /\ ~Nullish(Get(call.arg, "insights"))
    /\ Nullish(Get(Get(call.arg, "insights"), "connections"))
    /\ ~Nullish(Get(Get(call.arg, "insights"), "key_insights"))
    /\ DOMAIN insightsContent = FourFields
    /\ insightsContent.connections = NoConnections

\* the value field f of the display must show for a bundle
Expected(bundle, f) ==
    IF Nullish(Get(bundle, SourceField(f)))
    THEN Placeholder(f)
    ELSE Get(bundle, SourceField(f)).items

\* C11: when displayInsights returned from a response whose insights object
\* is present, each of the four fields is decided on its own: a field the
\* response omits or nulls shows exactly its one-element placeholder, and a
\* field the response provides shows the response's items unchanged (an
\* empty list stays empty), whatever the other three fields are.
C11_PerFieldFallback ==
    (call.state = "returned" /\ ~Nullish(Get(call.arg, "insights"))) =>
        /\ DOMAIN insightsContent = FourFields
        /\ \A f \in FourFields :
              /\ ShownItems(insightsContent[f]) = Expected(Get(call.arg, "insights"), f)
              /\ Nullish(Get(Get(call.arg, "insights"), SourceField(f))) =>
                    Len(insightsContent[f]) = 1

C11_Witness ==
    /\ call.state = "returned"
    /\ ~Nullish(Get(call.arg, "insights"))
    /\ Get(Get(call.arg, "insights"), "connections") = JNull
    /\ Get(Get(call.arg, "insights"), "key_insights") = JArray(<< >>)
    /\ Get(Get(call.arg, "insights"), "did_you_know") = JArray(<< Literal("x") >>)
    /\ Get(Get(call.arg, "insights"), "counterpoints").type = "array"
    /\ Len(Get(Get(call.arg, "insights"), "counterpoints").items) = 2
    /\ insightsContent.connections = NoConnections
    /\ insightsContent.keyInsights = << >>
    /\ insightsContent.didYouKnow = << Literal("x") >>
    /\ insightsContent.counterpoints # Get(Get(call.arg, "insights"), "counterpoints").items

\* a string of at least one character
NonEmpty(v) == v # NullS /\ v # AbsentS /\ StrLen(v) > 0

\* C12: when the podcast reply has been handled, the recorded narration is
\* the reply's script if that is a non-empty string; otherwise its
\* text_content if that is a non-empty string; otherwise the extracted text
\* that was sent in the request.
C12_ScriptFallbackChain ==
    call.state = "returned" =>
        currentPodcastText =
            IF NonEmpty(GetS(call.arg, "script")) THEN GetS(call.arg, "script")
            ELSE IF NonEmpty(GetS(call.arg, "text_content"))
                 THEN GetS(call.arg, "text_content")
                 ELSE call.text

C12_Witness ==
    /\ call.state = "returned"
    /\ GetS(call.arg, "script") = EmptyStr
    /\ GetS(call.arg, "text_content") = Chars("T", 600)
    /\ currentPodcastText = Chars("T", 600)

\* the pages 1..n in ascending order
FirstPages(n) == [i \in 1..n |-> i]

\* C13: the pages an extraction has read are 1, 2, ..., k in that order, each
\* once, with k at most 3 in Sample mode and at most 10 in Full mode, and at
\* most the document's page count.
C13_PagesReadInOrderUpToCap ==
    \A o \in Slots :
        Analysis(o) =>
            /\ ops[o].pagesRead = FirstPages(Len(ops[o].pagesRead))
            /\ Len(ops[o].pagesRead) <= (IF ops[o].kind = "quick" THEN 3 ELSE 10)
            /\ ops[o].pc \notin {"idle", "open", "done"} =>
                  Len(ops[o].pagesRead) <= ops[o].numPages
            /\ ops[o].pc \in {"page", "pageText"} =>
                  /\ ops[o].pageNum = Len(ops[o].pagesRead) + 1
                  /\ ops[o].pageNum <= ops[o].numPages

C13_Witness ==
    \E o \in Slots :
        /\ ops[o].kind = "full" /\ ops[o].pc = "insight"
        /\ ops[o].numPages = 12
        /\ ops[o].pagesRead = FirstPages(10)
        /\ ~ops[o].extractFailed

EndsWithEllipsis(text) == text # << >> /\ text[Len(text)] = <<".", 3>>

\* C14: the text of a Sample-mode extraction is never longer than 1000
\* characters plus the three of the ellipsis; the loop goes on to a further
\* page only with at most 1000 characters accumulated; and once a page took
\* the accumulator above 1000 the sample was cut, ends with the ellipsis,
\* and no further page is read even below the page cap.
C14_SampleCapStopsReading ==
    \A o \in Slots :
        ops[o].kind = "quick" =>
            /\ StrLen(ops[o].text) <= 1000 + 3
            /\ ops[o].pc \in {"page", "pageText"} =>
                  (StrLen(ops[o].acc) <= 1000 /\ ~ops[o].truncated)
            /\ ops[o].truncated =>
                  /\ ops[o].pc \notin {"page", "pageText"}
                  /\ EndsWithEllipsis(ops[o].text)
                  /\ ops[o].text = Trim(ops[o].text)
            /\ (~ops[o].truncated /\ ~ops[o].extractFailed) =>
                  StrLen(ops[o].text) <= 1000

C14_Witness ==
    \E o \in Slots :
        /\ ops[o].kind = "quick" /\ ops[o].pc = "insight"
        /\ ops[o].truncated
        /\ ops[o].numPages = 4 /\ ops[o].pagesRead = << 1, 2 >>
        /\ StrLen(ops[o].text) = 1003

\* the refresh a confirmed delete started
DeleteRefresh(op) == op.kind = "load" /\ op.alert = "Document deleted successfully"

\* the entry m of a listing or of the registry is the document the delete
\* op deleted, and not one uploaded since under the same identifier
Deleted(op, m) == m.id = op.doc /\ m.processed_at <= op.docStamp

\* C15: no step of a delete call changes the registry; the registry changes
\* only in the step in which a refresh completes, and then to that refresh's
\* listing; a delete call starts a refresh only from the backend's
\* confirmation and otherwise ends as failed; and the listing and the
\* registry written by the refresh a confirmed delete started do not
\* contain the deleted document.
C15_RemovalOnlyByRefresh ==
    [][ /\ \A o \in Slots :
              /\ ((ops[o].kind = "delete" \/ ops'[o].kind = "delete")
                    /\ ops'[o] # ops[o] /\ ~DeleteRefresh(ops[o])) =>
                     documents_metadata' = documents_metadata
              /\ (ops[o].kind = "delete" /\ ops[o].pc # "done" /\ ops'[o] # ops[o]) =>
                     IF ops[o].pc = "deleteOk" /\ ops'[o].kind = "load"
                     THEN ops'[o].pc = "list" /\ ops'[o].doc = ops[o].doc
                     ELSE \/ ops'[o].kind = "delete" /\ ops'[o].pc \in {"deleteOk", "deleteNotOk"}
                          \/ /\ ops'[o].kind = "delete" /\ ops'[o].pc = "done"
                             /\ ops'[o].outcome = "failed"
                             /\ ops'[o].alert = "Delete failed"
              /\ (DeleteRefresh(ops[o]) /\ ops[o].pc = "listBody"
                    /\ ops'[o].outcome = "ok") =>
                     /\ \A m \in ops[o].listing : ~Deleted(ops[o], m)
                     /\ \A d \in DOMAIN documents_metadata' :
                            ~Deleted(ops[o], documents_metadata'[d])
        /\ documents_metadata' # documents_metadata =>
              \E o \in Slots :
                 /\ ops[o].kind = "load" /\ ops[o].pc = "listBody"
                 /\ ops'[o].outcome = "ok"
                 /\ documents_metadata' = Registry(ops[o].listing) ]_vars

C15_Witness ==
    \E o \in Slots :
        /\ DeleteRefresh(ops[o]) /\ ops[o].pc = "done" /\ ops[o].outcome = "ok"
        /\ ops[o].doc = "d1"
        /\ DOMAIN documents_metadata = {"d2"}
        /\ serverDocs = { Metadata("d2", 0) }

\* a request of the returned call failed
RequestFailed(op) ==
    \/ NetworkError(op.insightResp)
    \/ NetworkError(op.relatedResp)
    \/ NetworkError(op.podcastResp)
    \/ op.kind \in {"load", "delete", "upload"} /\ op.outcome = "failed"

\* the call told of a failure: an alert to the user, or at least a line on
\* the console
Reported(op) ==
    \/ op.alert \in {"failed", "Delete failed", "Upload failed"}
    \/ op.logged \notin {"none", "extraction failed"}

\* C16: every returned call one of whose requests (insight, related
\* sections, podcast, registry refresh, delete, upload) failed has reported
\* a failure.
C16_EveryFailureReported ==
    \A o \in Slots :
        (ops[o].pc = "done" /\ RequestFailed(ops[o])) => Reported(ops[o])

\* C17: once the refresh started by a confirmed delete has completed, the
\* registry does not contain the deleted document, then or later, whatever
\* other refresh responses arrive.
C17_DeletedStaysGone ==
    \A o \in Slots :
        (DeleteRefresh(ops[o]) /\ ops[o].pc = "done" /\ ops[o].outcome = "ok") =>
            \A d \in DOMAIN documents_metadata :
                ~Deleted(ops[o], documents_metadata[d])

\* C18: the podcast request of a generatePodcast call is addressed to the
\* document whose text the call extracted, and that is a document.
C18_PodcastRequestForExtractedDocument ==
    \A o \in Slots :
        (ops[o].kind = "podcast" /\ ops[o].podcastReq.sent) =>
            /\ ops[o].podcastReq.doc = ops[o].doc
            /\ ops[o].podcastReq.doc \in Docs

\* the step in which call o writes a result into the document view
ShowsResult(o) ==
    \/ /\ ops[o].kind = "full" /\ ops[o].pc = "insightBody"
       /\ ~ops[o].rendered /\ ops'[o].rendered
    \/ /\ ops[o].kind = "full" /\ ops[o].pc = "relatedBody" /\ ops'[o].pc = "done"
       /\ ops'[o].logged # "Failed to load related sections"
    \/ /\ ops[o].kind = "podcast" /\ ops[o].pc = "podcastBody"
       /\ ~ops[o].rendered /\ ops'[o].rendered

\* C19: a call writes its insights, related sections or narration into the
\* document view, and makes their container visible, only while the
\* document it was started for is the open document; with no document open
\* no container becomes visible.
C19_ResultsOfOpenDocumentOnly ==
    [][ /\ \A o \in Slots : ShowsResult(o) => ops[o].doc = currentDocumentId'
        /\ currentDocumentId' = Null =>
              /\ insightsContainer = "none" => insightsContainer' = "none"
              /\ relatedSections = "none" => relatedSections' = "none"
              /\ podcastContainer = "none" => podcastContainer' = "none" ]_vars

\* an upload, quickAnalyze, fullAnalyze or generatePodcast call that has
\* started and not yet returned
WorkInFlight(o) ==
    /\ ops[o].kind \in {"upload", "quick", "full", "podcast"}
    /\ ops[o].pc \notin {"idle", "done"}

\* C20: the loading indicator is visible exactly when at least one upload,
\* quickAnalyze, fullAnalyze or generatePodcast call is in flight.
C20_LoadingWhileWorkInFlight ==
    (loading = "block") <=> (\E o \in Slots : WorkInFlight(o))

\* C21: a quickAnalyze call that has returned after its insight request was
\* answered with a success status and an insights bundle has shown the
\* bundle and reported no failure, whatever the registry held when the
\* response arrived.
C21_QuickResultDespiteRegistryMiss ==
    \A o \in Slots :
        (ops[o].kind = "quick" /\ ops[o].pc = "done" /\ ops[o].insightResp = "ok") =>
            /\ ops[o].rendered
            /\ ops[o].outcome = "ok"
            /\ ops[o].alert = "none"

====
